---- MODULE Spec2Model ----
(***************************************************************************)
(* The @event command of evennia/contrib/events/commands.py and the three  *)
(* editor callbacks (_ev_load, _ev_save, _ev_quit), over the event store   *)
(* kept by the event handler.                                              *)
(*                                                                         *)
(* State:                                                                  *)
(*   store     the handler's events: object -> event name -> list of       *)
(*             bindings (code, author, valid, updated_on)                  *)
(*   db_event  caller.db._event of every user: <<>> when the attribute is  *)
(*             absent, <<event>> when it holds an event dictionary         *)
(*   last      what the last call did: the handler that ran, its caller,   *)
(*             the message sent to the caller, the exception raised, the   *)
(*             table shown and the value returned                          *)
(***************************************************************************)
EXTENDS Integers, Sequences, FiniteSets, TLC

VARIABLES store, db_event, last

vars == <<store, db_event, last>>

(***************************************************************************)
(* Bounds of the model.                                                    *)
(***************************************************************************)
\* the most bindings the store may hold for one object, over all its event names
MaxEvents == 2

(***************************************************************************)
(* Settings and permissions (commands.py 17-21).                           *)
(***************************************************************************)
WITHOUT_VALIDATION == "immortals"
VALIDATING == "immortals"

\* the users of the model and the permissions each one holds
Users == {"helper", "validator"}
Permissions == [u \in Users |->
    CASE u = "helper" -> {"events_without_validation"}
      [] u = "validator" -> {"events_validating"}]

\* "perm(a) or perm(b)": the caller holds one of the permissions of the lock
check_lockstring(caller, lock) == Permissions[caller] \cap lock # {}

\* the lock of func and get_help: who may validate
validator_lock == {VALIDATING, "events_validating"}
\* the lock of _ev_save: whose events need no validation
autovalid_lock == {WITHOUT_VALIDATION, "events_without_validation"}

(***************************************************************************)
(* The world: objects, the event types of their typeclass, the inputs.     *)
(***************************************************************************)
None == "None"
Objects == {"door"}

\* caller.search(lhs): the object of that name, or None
search(lhs) == IF lhs \in Objects THEN lhs ELSE None

\* str.lower() on the event names a caller may type
RhsNames == {"", "open", "Open", "knock"}
lower(s) == IF s = "Open" THEN "open" ELSE s
EventNames == {lower(s) : s \in RhsNames} \ {""}

\* the texts an editor buffer may hold
Buffers == {"", "pass"}
\* len(code.splitlines())
splitlines_len(code) == IF code = "" THEN 0 ELSE 1

\* the event parameters a caller may type after the event name, as characters
DigitChars == <<"0", "1", "2", "3", "4", "5", "6", "7", "8", "9">>
IsDigit(c) == \E i \in DOMAIN DigitChars : DigitChars[i] = c
DigitVal(c) == (CHOOSE i \in DOMAIN DigitChars : DigitChars[i] = c) - 1

RECURSIVE DigitsVal(_)
DigitsVal(s) ==
    IF s = <<>> THEN 0
    ELSE 10 * DigitsVal(SubSeq(s, 1, Len(s) - 1)) + DigitVal(s[Len(s)])

AllDigits(s) == Len(s) > 0 /\ \A i \in DOMAIN s : IsDigit(s[i])

\* int(parameters) raises ValueError unless the text is an optionally signed
\* run of digits
int_ok(s) ==
    IF Len(s) > 0 /\ s[1] \in {"-", "+"} THEN AllDigits(Tail(s)) ELSE AllDigits(s)
int(s) ==
    IF s[1] = "-" THEN 0 - DigitsVal(Tail(s))
    ELSE IF s[1] = "+" THEN DigitsVal(Tail(s))
    ELSE DigitsVal(s)

\* the event parameters a caller may type after the event name, as characters:
\* nothing, a word, a negative number, and the ordinals up to one past the
\* longest list
Parameters ==
    {<<>>, <<"a">>, <<"-", "1">>} \cup
    {<<DigitChars[i + 1]>> : i \in 0..(MaxEvents + 1)}

(***************************************************************************)
(* The event handler (evennia.contrib.events.extend / the handler script): *)
(* the registry of event types and the store of bindings.                  *)
(***************************************************************************)
\* handler.get_event_types(obj): the event names of the object's typeclass
get_event_types(obj) == {"open"}

\* the second item of an event type's definition
description(event_name) == "When the door opens.\nVariables: door"
\* description.splitlines()[0]
first_line(event_name) == "When the door opens."

\* handler.get_events(obj): event name -> list of bindings
get_events(obj) == store[obj]

\* the store with the list of (obj, event_name) replaced
with_events(obj, event_name, events) ==
    [store EXCEPT ![obj] =
        [n \in DOMAIN store[obj] \cup {event_name} |->
            IF n = event_name THEN events ELSE store[obj][n]]]

\* handler.add_event(obj, event_name, code, author, valid): the store after
\* the new binding is appended; created_on is set, updated_on is absent
added_event(obj, event_name, code, author, valid) ==
    LET old == IF event_name \in DOMAIN store[obj]
               THEN store[obj][event_name] ELSE <<>>
    IN  with_events(obj, event_name,
            Append(old, [code |-> code, author |-> author, valid |-> valid,
                         updated_on |-> FALSE]))

\* Of the dictionary kept in caller.db._event the callbacks read the code
\* (_ev_load) and obj, name and number (_ev_save); of its other keys only the
\* presence of valid is tested, so the copy keeps that key with no value and
\* leaves out author, created_on and updated_on.
Unread == "unread"

\* the binding handler.add_event returns: the stored one, with its address
add_event_definition(obj, event_name, code, author, valid) ==
    LET old == IF event_name \in DOMAIN store[obj]
               THEN store[obj][event_name] ELSE <<>>
    IN  [code |-> code, valid |-> Unread, obj |-> obj, name |-> event_name,
         number |-> Len(old)]

\* handler.edit_event fails unless the index addresses an existing binding
edit_event_in_range(obj, event_name, number) ==
    /\ obj \in DOMAIN store
    /\ event_name \in DOMAIN store[obj]
    /\ number >= 0
    /\ number < Len(store[obj][event_name])

\* handler.edit_event(obj, event_name, number, code, author, valid): the store
\* after code, author and valid are replaced and updated_on is set
edited_event(obj, event_name, number, code, author, valid) ==
    with_events(obj, event_name,
        [store[obj][event_name] EXCEPT ![number + 1] =
            [code |-> code, author |-> author, valid |-> valid,
             updated_on |-> TRUE]])

\* the list without its item at 0-based index number
RemoveAt(events, number) ==
    SubSeq(events, 1, number) \o SubSeq(events, number + 2, Len(events))

\* handler.delete_event(obj, event_name, number): the store after the binding
\* is removed and the ones after it moved down
deleted_event(obj, event_name, number) ==
    with_events(obj, event_name, RemoveAt(store[obj][event_name], number))

(***************************************************************************)
(* What a call reports.                                                    *)
(***************************************************************************)
NoTable == [cols |-> <<>>, rows |-> <<>>]

Nothing == [op |-> "none", caller |-> None, msg |-> "", raised |-> "",
            table |-> NoTable, ret |-> ""]

\* the record of a call: the handler that ran, the message it sent, the
\* exception it raised, the table it showed, the value it returned
Done(op, caller, msg, raised, table, ret) ==
    [op |-> op, caller |-> caller, msg |-> msg, raised |-> raised,
     table |-> table, ret |-> ret]

Init ==
    /\ store = [o \in Objects |-> <<>>]
    /\ db_event = [u \in Users |-> <<>>]
    /\ last = Nothing

(***************************************************************************)
(* CmdEvent: the switches of the @event command.                           *)
(***************************************************************************)
\* the names of a set of event names in sorted() order
NameOrder == <<"knock", "open">>
sorted(names) == SelectSeq(NameOrder, LAMBDA n : n \in names)

\* event_row as it would be if the row showed the valid flag to every caller
event_row_shows_valid(i, event, is_validator) ==
    <<ToString(i + 1), event.author,
      IF event.updated_on THEN "since updated_on" ELSE "since created_on",
      IF event.valid THEN "Yes" ELSE "no">>

\* the row of one binding in the table of an event name (lines 198-214)
event_row(i, event, is_validator) ==
    LET row == <<ToString(i + 1), event.author,
                 IF event.updated_on THEN "since updated_on"
                 ELSE "since created_on">>
    IN  IF is_validator
        THEN Append(row, IF event.valid THEN "Yes" ELSE "no")
        ELSE row

\* the row of one event type in the table of an object (lines 221-226)
type_row(events, name) ==
    LET created == IF name \in DOMAIN events THEN events[name] ELSE <<>>
        RECURSIVE lines(_)
        lines(k) == IF k = 0 THEN 0
                    ELSE lines(k - 1) + splitlines_len(created[k].code)
    IN  <<name, ToString(Len(created)), ToString(lines(Len(created))),
          first_line(name)>>

\* the number of bindings of (obj, event_name)
count_list(obj, event_name) ==
    IF event_name \in DOMAIN store[obj] THEN Len(store[obj][event_name]) ELSE 0

\* the number of bindings the store holds for the object
count_events(obj) ==
    LET names == sorted(DOMAIN store[obj])
        RECURSIVE count(_)
        count(k) == IF k = 0 THEN 0
                    ELSE count(k - 1) + Len(store[obj][names[k]])
    IN  count(Len(names))

\* CmdEvent.list_events: display the list of events connected to the object
list_events(caller, obj, event_name, parameters, is_validator) ==
    LET events == get_events(obj)
        types == get_event_types(obj)
        made(msg, table) ==
            Done("list", caller, msg, "", table, "")
    IN  /\ UNCHANGED <<store, db_event>>
        /\ IF event_name # ""
           THEN IF event_name \notin DOMAIN events
                THEN last' = made("No event has been set", NoTable)
                ELSE LET created == events[event_name]
                         cols == IF is_validator
                                 THEN <<"Number", "Author", "Updated", "Valid">>
                                 ELSE <<"Number", "Author", "Updated">>
                     IN  last' = made("table",
                            [cols |-> cols,
                             rows |-> [i \in 1..Len(created) |->
                                 event_row(i - 1, created[i], is_validator)]])
           ELSE LET names == sorted(types)
                IN  last' = made("table",
                        [cols |-> <<"Event name", "Number", "Lines",
                                    "Description">>,
                         rows |-> [i \in 1..Len(names) |->
                             type_row(events, names[i])]])

\* add_event as it would be if a caller who has an event open kept that one
add_event_keeps_first(caller, obj, event_name, parameters) ==
    IF event_name \notin get_event_types(obj)
    THEN /\ last' = Done("add", caller,
                         "The event name can't be found in typeclass", "",
                         NoTable, "")
         /\ UNCHANGED <<store, db_event>>
    ELSE /\ count_events(obj) < MaxEvents
         /\ store' = added_event(obj, event_name, "", caller, FALSE)
         /\ db_event' = [db_event EXCEPT ![caller] =
                IF db_event[caller] # <<>> THEN db_event[caller]
                ELSE <<add_event_definition(obj, event_name, "", caller, FALSE)>>]
         /\ last' = Done("add", caller, description(event_name), "", NoTable, "")

\* add_event as it would be if an unknown event name closed the event the
\* caller had open
add_event_drops_session(caller, obj, event_name, parameters) ==
    IF event_name \notin get_event_types(obj)
    THEN /\ last' = Done("add", caller,
                         "The event name can't be found in typeclass", "",
                         NoTable, "")
         /\ db_event' = [db_event EXCEPT ![caller] = <<>>]
         /\ UNCHANGED store
    ELSE /\ count_events(obj) < MaxEvents
         /\ store' = added_event(obj, event_name, "", caller, FALSE)
         /\ db_event' = [db_event EXCEPT ![caller] =
                <<add_event_definition(obj, event_name, "", caller, FALSE)>>]
         /\ last' = Done("add", caller, description(event_name), "", NoTable, "")

\* CmdEvent.add_event: add an event and open the editor on it
add_event(caller, obj, event_name, parameters) ==
    LET types == get_event_types(obj)
        made(msg) ==
            Done("add", caller, msg, "", NoTable, "")
    IN  IF event_name \notin types
        THEN /\ last' = made("The event name can't be found in typeclass")
             /\ UNCHANGED <<store, db_event>>
        ELSE /\ count_events(obj) < MaxEvents
             /\ store' = added_event(obj, event_name, "", caller, FALSE)
             /\ db_event' = [db_event EXCEPT ![caller] =
                    <<add_event_definition(obj, event_name, "", caller, FALSE)>>]
             /\ last' = made(description(event_name))

\* edit_event as it would be if opening the editor sent the event back to
\* validation at once
edit_event_resets_valid(caller, obj, event_name, parameters) ==
    LET events == get_events(obj)
        found == /\ event_name \in DOMAIN events
                 /\ int_ok(parameters)
                 /\ int(parameters) - 1 >= 0
                 /\ int(parameters) - 1 < Len(events[event_name])
    IN  IF ~found
        THEN /\ last' = Done("edit", caller, "The event cannot be found", "",
                              NoTable, "")
             /\ UNCHANGED <<store, db_event>>
        ELSE LET number == int(parameters) - 1
                 event == events[event_name][number + 1]
             IN  /\ db_event' = [db_event EXCEPT ![caller] =
                        <<[code |-> event.code, valid |-> Unread,
                           obj |-> obj, name |-> event_name,
                           number |-> number]>>]
                 /\ store' = with_events(obj, event_name,
                        [events[event_name] EXCEPT ![number + 1].valid = FALSE])
                 /\ last' = Done("edit", caller, description(event_name), "",
                                 NoTable, "")

\* CmdEvent.edit_event: open the editor on an existing event
edit_event(caller, obj, event_name, parameters) ==
    LET events == get_events(obj)
        types == get_event_types(obj)
        made(msg, raised) ==
            Done("edit", caller, msg, raised, NoTable, "")
    IN  IF event_name \notin DOMAIN events
        THEN /\ last' = made("The event name can't be found", "")
             /\ UNCHANGED <<store, db_event>>
        ELSE IF ~int_ok(parameters)
        THEN \* ValueError, caught
             /\ last' = made("The event cannot be found", "")
             /\ UNCHANGED <<store, db_event>>
        ELSE IF int(parameters) - 1 < 0
        THEN \* AssertionError, caught
             /\ last' = made("The event cannot be found", "")
             /\ UNCHANGED <<store, db_event>>
        ELSE IF int(parameters) - 1 >= Len(events[event_name])
        THEN \* events[event_name][parameters]: IndexError, not caught
             /\ last' = made("", "IndexError")
             /\ UNCHANGED <<store, db_event>>
        ELSE IF event_name \notin types
        THEN \* types[event_name]: KeyError, not caught
             /\ last' = made("", "KeyError")
             /\ UNCHANGED <<store, db_event>>
        ELSE LET number == int(parameters) - 1
                 event == events[event_name][number + 1]
             IN  /\ db_event' = [db_event EXCEPT ![caller] =
                        <<[code |-> event.code, valid |-> Unread,
                           obj |-> obj, name |-> event_name,
                           number |-> number]>>]
                 /\ last' = made(description(event_name), "")
                 /\ UNCHANGED store

\* CmdEvent.del_event: delete an event
del_event(caller, obj, event_name, parameters) ==
    /\ last' = Done("del", caller, "Calling del.", "", NoTable, "")
    /\ UNCHANGED <<store, db_event>>

\* accept_event as it would be if it made the addressed event valid
accept_event_validates(caller, obj, event_name, parameters) ==
    LET events == get_events(obj)
        found == /\ obj # None
                 /\ event_name \in DOMAIN events
                 /\ int_ok(parameters)
                 /\ int(parameters) - 1 >= 0
                 /\ int(parameters) - 1 < Len(events[event_name])
    IN  /\ last' = Done("accept", caller, "Calling accept.", "", NoTable, "")
        /\ UNCHANGED db_event
        /\ IF found
           THEN store' = with_events(obj, event_name,
                    [events[event_name] EXCEPT ![int(parameters)].valid = TRUE])
           ELSE UNCHANGED store

\* CmdEvent.accept_event: accept an event
accept_event(caller, obj, event_name, parameters) ==
    /\ last' = Done("accept", caller, "Calling accept.", "", NoTable, "")
    /\ UNCHANGED <<store, db_event>>

\* func as it would be if the accept switch were served to every caller
func_accepts_all(caller, switch, lhs, rhs_name, parameters, running) ==
    LET validator == check_lockstring(caller, validator_lock)
        event_name == lower(rhs_name)
        has_args == lhs # "" \/ rhs_name # ""
        obj == IF has_args THEN search(lhs) ELSE None
        stop(msg) == /\ last' = Done("func", caller, msg, "", NoTable, "")
                     /\ UNCHANGED <<store, db_event>>
    IN  IF ~running
        THEN stop("The event handler is not running")
        ELSE IF has_args /\ obj = None
        THEN stop("")
        ELSE IF switch \in {"", "add", "edit", "del"} /\ obj = None
        THEN stop("Specify an object's name or #ID.")
        ELSE IF switch = ""
        THEN list_events(caller, obj, event_name, parameters, validator)
        ELSE IF switch = "add"
        THEN add_event(caller, obj, event_name, parameters)
        ELSE IF switch = "edit"
        THEN edit_event(caller, obj, event_name, parameters)
        ELSE IF switch = "del"
        THEN del_event(caller, obj, event_name, parameters)
        ELSE IF switch = "accept"
        THEN accept_event(caller, obj, event_name, parameters)
        ELSE stop("Mutually exclusive or invalid switches were used")

\* CmdEvent.func: the command body; running is whether get_event_handler()
\* finds the handler
func(caller, switch, lhs, rhs_name, parameters, running) ==
    LET validator == check_lockstring(caller, validator_lock)
        event_name == lower(rhs_name)
        has_args == lhs # "" \/ rhs_name # ""
        obj == IF has_args THEN search(lhs) ELSE None
        made(msg) ==
            Done("func", caller, msg, "", NoTable, "")
        stop(msg) == last' = made(msg) /\ UNCHANGED <<store, db_event>>
    IN  IF ~running
        THEN stop("The event handler is not running")
        ELSE IF has_args /\ obj = None
        THEN stop("")
        ELSE IF switch = ""
        THEN IF obj = None THEN stop("Specify an object's name or #ID.")
             ELSE list_events(caller, obj, event_name, parameters, validator)
        ELSE IF switch = "add"
        THEN IF obj = None THEN stop("Specify an object's name or #ID.")
             ELSE add_event(caller, obj, event_name, parameters)
        ELSE IF switch = "edit"
        THEN IF obj = None THEN stop("Specify an object's name or #ID.")
             ELSE edit_event(caller, obj, event_name, parameters)
        ELSE IF switch = "del"
        THEN IF obj = None THEN stop("Specify an object's name or #ID.")
             ELSE del_event(caller, obj, event_name, parameters)
        ELSE IF switch = "accept" /\ validator
        THEN accept_event(caller, obj, event_name, parameters)
        ELSE stop("Mutually exclusive or invalid switches were used")

(***************************************************************************)
(* The callbacks of the editor.                                            *)
(***************************************************************************)
\* _ev_load: the text the editor starts from
ev_load(caller) ==
    /\ last' = Done("load", caller, "", "", NoTable,
                    IF db_event[caller] # <<>> THEN db_event[caller][1].code
                    ELSE "")
    /\ UNCHANGED <<store, db_event>>

\* _ev_save as it would be if it left the valid flag of the event as it was
ev_save_keeps_valid(caller, buf, running) ==
    LET event == db_event[caller]
    IN  IF ~running \/ event = <<>>
           \/ ~edit_event_in_range(event[1].obj, event[1].name, event[1].number)
        THEN /\ last' = Done("save", caller, "Couldn't save this event.", "",
                             NoTable, "False")
             /\ UNCHANGED <<store, db_event>>
        ELSE /\ store' = edited_event(event[1].obj, event[1].name,
                    event[1].number, buf, caller,
                    store[event[1].obj][event[1].name][event[1].number + 1].valid)
             /\ last' = Done("save", caller, "", "", NoTable, "True")
             /\ UNCHANGED db_event

\* _ev_save as it would be if a caller with no event saved a new one
ev_save_adds(caller, buf, running) ==
    LET autovalid == check_lockstring(caller, autovalid_lock)
        event == db_event[caller]
    IN  IF event = <<>>
        THEN /\ store' = added_event("door", "open", buf, caller, autovalid)
             /\ last' = Done("save", caller, "", "", NoTable, "True")
             /\ UNCHANGED db_event
        ELSE IF ~running
                \/ ~edit_event_in_range(event[1].obj, event[1].name,
                                         event[1].number)
        THEN /\ last' = Done("save", caller, "Couldn't save this event.", "",
                             NoTable, "False")
             /\ UNCHANGED <<store, db_event>>
        ELSE /\ store' = edited_event(event[1].obj, event[1].name,
                                      event[1].number, buf, caller, autovalid)
             /\ last' = Done("save", caller, "", "", NoTable, "True")
             /\ UNCHANGED db_event

\* _ev_save as it would be if it wrote the first binding of the list, whatever
\* number the event of the caller holds
ev_save_writes_first(caller, buf, running) ==
    LET autovalid == check_lockstring(caller, autovalid_lock)
        event == db_event[caller]
    IN  IF ~running \/ event = <<>>
           \/ ~edit_event_in_range(event[1].obj, event[1].name, event[1].number)
        THEN /\ last' = Done("save", caller, "Couldn't save this event.", "",
                             NoTable, "False")
             /\ UNCHANGED <<store, db_event>>
        ELSE /\ store' = edited_event(event[1].obj, event[1].name, 0, buf,
                                      caller, autovalid)
             /\ last' = Done("save", caller, "", "", NoTable, "True")
             /\ UNCHANGED db_event

\* _ev_save as it would be if a save that succeeds closed the event of the
\* caller
ev_save_closes(caller, buf, running) ==
    LET autovalid == check_lockstring(caller, autovalid_lock)
        event == db_event[caller]
    IN  IF ~running \/ event = <<>>
           \/ ~edit_event_in_range(event[1].obj, event[1].name, event[1].number)
        THEN /\ last' = Done("save", caller, "Couldn't save this event.", "",
                             NoTable, "False")
             /\ UNCHANGED <<store, db_event>>
        ELSE /\ store' = edited_event(event[1].obj, event[1].name,
                                      event[1].number, buf, caller, autovalid)
             /\ db_event' = [db_event EXCEPT ![caller] = <<>>]
             /\ last' = Done("save", caller, "", "", NoTable, "True")

\* _ev_save: save the buffer in the event of the caller; running is whether
\* get_event_handler() finds the handler
ev_save(caller, buf, running) ==
    LET autovalid == check_lockstring(caller, autovalid_lock)
        event == db_event[caller]
    IN  IF \/ ~running
           \/ event = <<>>
           \/ ~({"obj", "name", "number", "valid"} \subseteq DOMAIN event[1])
        THEN /\ last' = Done("save", caller, "Couldn't save this event.", "",
                             NoTable, "False")
             /\ UNCHANGED <<store, db_event>>
        ELSE IF ~edit_event_in_range(event[1].obj, event[1].name,
                                     event[1].number)
        THEN \* handler.edit_event fails, nothing is returned
             /\ last' = Done("save", caller, "", "IndexOutOfRange", NoTable, "")
             /\ UNCHANGED <<store, db_event>>
        ELSE /\ store' = edited_event(event[1].obj, event[1].name,
                                      event[1].number, buf, caller, autovalid)
             /\ last' = Done("save", caller, "", "", NoTable, "True")
             /\ UNCHANGED db_event

\* _ev_quit as it would be if leaving the editor took the event of the caller
\* out of the store
ev_quit_removes(caller) ==
    LET event == db_event[caller]
    IN  /\ db_event' = [db_event EXCEPT ![caller] = <<>>]
        /\ last' = Done("quit", caller, "Exited the code editor.", "", NoTable,
                        "")
        /\ IF event # <<>> /\ edit_event_in_range(event[1].obj, event[1].name,
                                                   event[1].number)
           THEN store' = deleted_event(event[1].obj, event[1].name,
                                       event[1].number)
           ELSE UNCHANGED store

\* _ev_quit: the editor is left
ev_quit(caller) ==
    /\ db_event' = [db_event EXCEPT ![caller] = <<>>]
    /\ last' = Done("quit", caller, "Exited the code editor.", "", NoTable, "")
    /\ UNCHANGED store

(***************************************************************************)
(* The specification.                                                      *)
(***************************************************************************)
Switches == {"", "add", "edit", "del", "accept", "look"}

\* the ordinals of the bindings a list may hold
Ordinals == {<<DigitChars[i + 1]>> : i \in 1..MaxEvents}

\* what the callers may type.  The paths that do not depend on the caller are
\* taken by one caller: the ones of func that end before a switch is served,
\* an event name that is written in capitals or is no event type of the door,
\* a parameter that is no ordinal.  Both callers list and add the event open
\* of the door, edit it at every ordinal, and delete and accept its first
\* binding; both use the accept switch with no object.
Inputs ==
    [caller : {"helper"}, switch : Switches \ {"accept"}, lhs : {""},
     rhs_name : {""}, parameters : {<<>>}]
    \cup [caller : Users, switch : {"accept"}, lhs : {""}, rhs_name : {""},
          parameters : {<<>>}]
    \cup [caller : {"helper"}, switch : {""}, lhs : {"nobody"},
          rhs_name : {""}, parameters : {<<>>}]
    \cup [caller : Users, switch : {"", "add"}, lhs : {"door"},
          rhs_name : {"open"}, parameters : {<<>>}]
    \cup [caller : Users, switch : {""}, lhs : {"door"},
          rhs_name : {""}, parameters : {<<>>}]
    \cup [caller : {"helper"}, switch : {"", "add"}, lhs : {"door"},
          rhs_name : {"Open", "knock"}, parameters : {<<>>}]
    \cup [caller : {"helper"}, switch : {"add"}, lhs : {"door"},
          rhs_name : {""}, parameters : {<<>>}]
    \cup [caller : Users, switch : {"edit"}, lhs : {"door"},
          rhs_name : {"open"}, parameters : Ordinals]
    \cup [caller : {"helper"}, switch : {"edit"}, lhs : {"door"},
          rhs_name : {"open"}, parameters : Parameters \ Ordinals]
    \cup [caller : {"helper"}, switch : {"edit"}, lhs : {"door"},
          rhs_name : {"", "Open", "knock"}, parameters : {<<"1">>}]
    \cup [caller : Users, switch : {"del", "accept"}, lhs : {"door"},
          rhs_name : {"open"}, parameters : {<<"1">>}]

Next ==
    \/ \E in \in Inputs :
            func(in.caller, in.switch, in.lhs, in.rhs_name, in.parameters, TRUE)
    \/ func("helper", "", "", "", <<>>, FALSE)
    \/ \E caller \in Users : ev_load(caller)
    \/ \E caller \in Users, buf \in Buffers : ev_save(caller, buf, TRUE)
    \/ \E caller \in Users : ev_save(caller, "pass", FALSE)
    \/ \E caller \in Users : ev_quit(caller)

Spec == Init /\ [][Next]_vars

\* The store is the handler's: other code of the game reaches it through the
\* handler and may delete an event there.
handler_delete_event(obj, event_name, number) ==
    /\ edit_event_in_range(obj, event_name, number)
    /\ store' = deleted_event(obj, event_name, number)
    /\ last' = Done("delete_event", None, "", "", NoTable, "")
    /\ UNCHANGED db_event

NextStore ==
    \/ Next
    \/ \E number \in 0..(MaxEvents - 1) :
            handler_delete_event("door", "open", number)

SpecStore == Init /\ [][NextStore]_vars

(***************************************************************************)
(* The claims.                                                             *)
(***************************************************************************)
\* the caller may bypass validation
trusted(u) == Permissions[u] \cap {WITHOUT_VALIDATION, "events_without_validation"} # {}
\* the caller may validate
may_validate(u) == Permissions[u] \cap {VALIDATING, "events_validating"} # {}

\* the bindings of the event open of the door, none when the name is not there
OpenEvents(st) == IF "open" \in DOMAIN st["door"] THEN st["door"]["open"] ELSE <<>>

\* the stored binding the event of the caller addresses
HasTarget(u) ==
    /\ db_event[u] # <<>>
    /\ edit_event_in_range(db_event[u][1].obj, db_event[u][1].name,
                           db_event[u][1].number)
Target(u) ==
    store[db_event[u][1].obj][db_event[u][1].name][db_event[u][1].number + 1]

\* the parameter is the ordinal of the binding at 0-based index i
IsOrdinal(parameters, i) == parameters = <<DigitChars[i + 2]>>

\* C1: after a save that returned True the saved binding is valid exactly when
\* the saving user holds the permission to bypass validation, whatever the
\* flag was before.
C1_ValidationGate ==
    (last.op = "save" /\ last.ret = "True") =>
        /\ HasTarget(last.caller)
        /\ Target(last.caller).valid = trusted(last.caller)

\* C1 witness: an untrusted user has saved code, with success, and the saved
\* binding is pending.
C1_Witness ==
    /\ last.op = "save" /\ last.ret = "True"
    /\ ~trusted(last.caller)
    /\ HasTarget(last.caller)
    /\ Target(last.caller).valid = FALSE
    /\ Target(last.caller).code = "pass"

\* C2 (as claimed): only a save puts a binding in the store; the add command
\* leaves the length of every list as it was.
C2_OnlySavesAddBindings ==
    [][Len(OpenEvents(store')) # Len(OpenEvents(store)) => last'.op = "save"]_vars

\* C3 (as claimed): @event/edit on a name that has bindings, with ordinal 0, a
\* parameter that is no number or an ordinal past the end, reports that the
\* event cannot be found, raises nothing, and changes neither store nor events.
C3_BadOrdinalNotFound ==
    [][\A u \in Users, p \in Parameters :
        ( /\ Len(OpenEvents(store)) >= 1
          /\ \/ ~int_ok(p)
             \/ int_ok(p) /\ int(p) = 0
             \/ int_ok(p) /\ int(p) > Len(OpenEvents(store))
          /\ edit_event(u, "door", "open", p) )
        => /\ last'.msg = "The event cannot be found"
           /\ last'.raised = ""
           /\ store' = store /\ db_event' = db_event]_vars

\* C4 (as claimed): when a validator accepts an existing pending binding it
\* becomes valid, with its code and author as they were.
C4_AcceptMakesValid ==
    [][\A u \in Users, i \in 0..(MaxEvents - 1), p \in Parameters :
        ( /\ may_validate(u)
          /\ i < Len(OpenEvents(store))
          /\ IsOrdinal(p, i)
          /\ ~OpenEvents(store)[i + 1].valid
          /\ accept_event(u, "door", "open", p) )
        => /\ Len(OpenEvents(store')) = Len(OpenEvents(store))
           /\ OpenEvents(store')[i + 1].valid
           /\ OpenEvents(store')[i + 1].code = OpenEvents(store)[i + 1].code
           /\ OpenEvents(store')[i + 1].author = OpenEvents(store)[i + 1].author]_vars

\* C5 (as claimed): @event/del with a valid ordinal i of a list of n bindings
\* leaves n-1 bindings: the ones before i stay, the ones after it move down.
C5_DeleteRepacks ==
    [][\A u \in Users, i \in 0..(MaxEvents - 1), p \in Parameters :
        ( /\ i < Len(OpenEvents(store))
          /\ IsOrdinal(p, i)
          /\ del_event(u, "door", "open", p) )
        => /\ Len(OpenEvents(store')) = Len(OpenEvents(store)) - 1
           /\ \A k \in 1..(Len(OpenEvents(store)) - 1) :
                OpenEvents(store')[k] =
                    OpenEvents(store)[IF k <= i THEN k ELSE k + 1]]_vars

\* C6 (as claimed): every stored binding whose author may bypass validation
\* is valid.
C6_TrustedAuthorValid ==
    \A k \in 1..Len(OpenEvents(store)) :
        trusted(OpenEvents(store)[k].author) => OpenEvents(store)[k].valid

\* C7: _ev_quit clears the event of the caller, whether there was one or not,
\* and leaves the store as it was.
C7_QuitDiscards ==
    [][last'.op = "quit" =>
        /\ db_event'[last'.caller] = <<>>
        /\ store' = store]_vars

\* C7 witness: a user has quit, has no event, and the store holds bindings.
C7_Witness ==
    /\ last.op = "quit"
    /\ db_event[last.caller] = <<>>
    /\ Len(OpenEvents(store)) >= 1

\* C8: _ev_save called by a user with no event, or while the handler is not
\* running, returns False; a save that returns False leaves the store and
\* the events of the users as they were.
C8_IncompleteSaveFails ==
    [][last'.op = "save" =>
        /\ db_event[last'.caller] = <<>> => last'.ret = "False"
        /\ (\E buf \in Buffers : ev_save(last'.caller, buf, FALSE))
            => last'.ret = "False"
        /\ last'.ret # "True" => (store' = store /\ db_event' = db_event)]_vars

\* C8 witness: a save by a user with no event has returned False, and the
\* store holds bindings it could have touched.
C8_Witness ==
    /\ last.op = "save" /\ last.ret = "False"
    /\ db_event[last.caller] = <<>>
    /\ Len(OpenEvents(store)) >= 1

\* C9: @event/edit, _ev_quit, _ev_load and a save that does not succeed leave
\* every binding of the store as it was.
C9_EditWithoutSave ==
    [][(\/ last'.op \in {"edit", "quit", "load"}
        \/ last'.op = "save" /\ last'.ret # "True") => store' = store]_vars

\* C9 witness: the editor has been opened on a stored binding that is valid
\* and holds code, and the binding is still so.
C9_Witness ==
    /\ last.op = "edit" /\ last.raised = ""
    /\ last.msg = description("open")
    /\ HasTarget(last.caller)
    /\ Target(last.caller).valid
    /\ Target(last.caller).code = "pass"
    /\ Target(last.caller).author # last.caller

\* C10 (as claimed): listing an event name that has no binding on the object
\* says that no such event is set, whether the store holds no list or an
\* empty one; otherwise it shows one row per binding, in order, numbered
\* from 1.
C10_ListEmptyNotFound ==
    [][\A u \in Users, n \in EventNames :
        list_events(u, "door", n, <<>>, may_validate(u)) =>
            IF count_list("door", n) = 0
            THEN last'.msg = "No event has been set" /\ last'.table = NoTable
            ELSE /\ last'.msg = "table"
                 /\ Len(last'.table.rows) = count_list("door", n)
                 /\ \A k \in 1..count_list("door", n) :
                        /\ last'.table.rows[k][1] = ToString(k)
                        /\ last'.table.rows[k][2] = store["door"][n][k].author]_vars

\* C11: @event/add with an event name that is no event type of the object
\* answers that the name cannot be found, appends no binding, and leaves the
\* event of every user, the caller's included, as it was.
C11_UnknownTypeOnAdd ==
    [][last'.op = "add" =>
        \A u \in Users, n \in EventNames \cup {""} :
            (n \notin get_event_types("door") /\ add_event(u, "door", n, <<>>))
            => /\ last'.msg = "The event name can't be found in typeclass"
               /\ store' = store
               /\ db_event' = db_event]_vars

\* C11 witness: a user who has an event open on a stored binding has been
\* told that the event name cannot be found, and still has the event.
C11_Witness ==
    /\ last.op = "add"
    /\ last.msg = "The event name can't be found in typeclass"
    /\ HasTarget(last.caller)
    /\ Target(last.caller).code = "pass"

\* C12: a save that returns True leaves the number of bindings as it was and
\* the event of the caller open and as it was, and the binding it addresses
\* then holds the buffer as code and the caller as author; the event of a
\* user is cleared by no step but that user's _ev_quit.
C12_RepeatedSavesOverwrite ==
    [][/\ (last'.op = "save" /\ last'.ret = "True") =>
            LET u == last'.caller
                number == db_event'[u][1].number
            IN  /\ db_event[u] # <<>> /\ db_event' = db_event
                /\ Len(OpenEvents(store')) = Len(OpenEvents(store))
                /\ OpenEvents(store')[number + 1].author = u
                /\ \E buf \in Buffers :
                        /\ ev_save(u, buf, TRUE)
                        /\ OpenEvents(store')[number + 1].code = buf
       /\ \A u \in Users :
            (db_event[u] # <<>> /\ db_event'[u] = <<>>) =>
                (last'.op = "quit" /\ last'.caller = u)]_vars

\* C12 witness: a save has returned True on a binding whose code, as the
\* event of the caller still shows, was not empty when the editor was opened;
\* the binding now holds the empty buffer and the caller as author.
C12_Witness ==
    /\ last.op = "save" /\ last.ret = "True"
    /\ HasTarget(last.caller)
    /\ db_event[last.caller][1].code = "pass"
    /\ Target(last.caller).code = ""
    /\ Target(last.caller).author = last.caller
    /\ Target(last.caller).updated_on

\* C13 (as claimed): _ev_load called by a user whose event addresses a stored
\* binding returns the code the store holds for that binding.
C13_LoadReturnsCurrentCode ==
    (last.op = "load" /\ HasTarget(last.caller)) =>
        last.ret = Target(last.caller).code

\* the event a command leaves in caller.db._event when it opens the editor on
\* the binding at 0-based index number, whose code is code
Opened(code, number) ==
    <<[code |-> code, valid |-> Unread, obj |-> "door", name |-> "open",
       number |-> number]>>

\* the command has opened the editor
EditorOpened(l) ==
    l.op \in {"add", "edit"} /\ l.raised = "" /\ l.msg = description("open")

\* C14: a user has at most one event.  When a command opens the editor for a
\* user, whether the user had an event or not, the event of the user is then
\* the one of that command alone: the new last binding after an add, the
\* binding of the ordinal after an edit; the events of the others stay.  A
\* save that succeeds writes the binding the event of the saver addresses at
\* that time and no other.
C14_OneSessionReplaced ==
    [][/\ db_event' # db_event => \A u \in Users : Len(db_event'[u]) <= 1
       /\ EditorOpened(last') =>
            LET u == last'.caller
            IN  /\ \A v \in Users \ {u} : db_event'[v] = db_event[v]
                /\ last'.op = "add" =>
                        db_event'[u] = Opened("", Len(OpenEvents(store)))
                /\ last'.op = "edit" =>
                        \E p \in Ordinals :
                            /\ int(p) <= Len(OpenEvents(store))
                            /\ db_event'[u] =
                                Opened(OpenEvents(store)[int(p)].code, int(p) - 1)
                            /\ edit_event(u, "door", "open", p)
       /\ (last'.op = "save" /\ last'.ret = "True") =>
            \A k \in 1..Len(OpenEvents(store)) :
                k # db_event[last'.caller][1].number + 1 =>
                    OpenEvents(store')[k] = OpenEvents(store)[k]]_vars

\* C14 witness: a user added a first binding and never saved it, has the
\* event of a second binding open, and has saved code there: the first
\* binding is as the add left it.
C14_Witness ==
    /\ last.op = "save" /\ last.ret = "True"
    /\ Len(OpenEvents(store)) = 2
    /\ db_event[last.caller] = Opened("", 1)
    /\ OpenEvents(store)[2].code = "pass"
    /\ OpenEvents(store)[1] = [code |-> "", author |-> last.caller,
                               valid |-> FALSE, updated_on |-> FALSE]

\* C15: in the table of an event name shown to a caller who may not validate,
\* the rows have three cells and are the same whatever the valid flags of the
\* bindings are; in the table shown to a validator every row has a fourth
\* cell, Yes when the binding is valid and no when it is not.
C15_ValidityHidden ==
    [][(last'.op = "list" /\ last'.table.cols # <<>>
            /\ last'.table.cols[1] = "Number") =>
        LET created == OpenEvents(store)
            rows == last'.table.rows
        IN  /\ Len(rows) = Len(created)
            /\ IF may_validate(last'.caller)
               THEN /\ last'.table.cols[Len(last'.table.cols)] = "Valid"
                    /\ \A k \in 1..Len(created) :
                        /\ Len(rows[k]) = 4
                        /\ rows[k][4] = IF created[k].valid THEN "Yes" ELSE "no"
               ELSE /\ Len(last'.table.cols) = 3
                    /\ \A k \in 1..Len(created) : Len(rows[k]) = 3
                    /\ \A f \in [1..Len(created) -> BOOLEAN] :
                        rows = [i \in 1..Len(created) |->
                            event_row(i - 1, [created[i] EXCEPT !.valid = f[i]],
                                      FALSE)]]_vars

\* C15 witness: a caller who may not validate has been shown the rows of two
\* bindings, one valid and one not.
C15_Witness ==
    /\ last.op = "list" /\ ~may_validate(last.caller)
    /\ last.table.cols = <<"Number", "Author", "Updated">>
    /\ Len(last.table.rows) = 2
    /\ Len(OpenEvents(store)) = 2
    /\ OpenEvents(store)[1].valid /\ ~OpenEvents(store)[2].valid

RefusedInputs ==
    [caller : {"helper"}, switch : {"accept", "look"}, lhs : {""},
     rhs_name : {""}, parameters : {<<>>}]
    \cup [caller : {"helper"}, switch : {"accept"}, lhs : {"door"},
          rhs_name : {"open"}, parameters : {<<"1">>}]

\* the inputs of Inputs with the list, add, edit or del switch and no object
NoObjectInputs ==
    [caller : {"helper"}, switch : {"", "add", "edit", "del"}, lhs : {""},
     rhs_name : {""}, parameters : {<<>>}]

\* C17: accept_event runs only for a caller who may validate.  The accept
\* switch used by another caller, and a switch the command does not know, are
\* answered with the message of the invalid switches; the list, add, edit and
\* del switches with no object are answered with the request for an object;
\* in all these cases the store and the events of the users stay as they were.
C17_AcceptGated ==
    [][/\ last'.op = "accept" => may_validate(last'.caller)
       /\ last'.op = "func" =>
            /\ \A in \in RefusedInputs :
                \/ /\ last'.msg =
                        "Mutually exclusive or invalid switches were used"
                   /\ store' = store /\ db_event' = db_event
                \/ ~func(in.caller, in.switch, in.lhs, in.rhs_name,
                         in.parameters, TRUE)
            /\ \A in \in NoObjectInputs :
                \/ /\ last'.msg = "Specify an object's name or #ID."
                   /\ store' = store /\ db_event' = db_event
                \/ ~func(in.caller, in.switch, in.lhs, in.rhs_name,
                         in.parameters, TRUE)]_vars

\* C17 witness: a caller who may not validate, with an event open on a
\* pending binding, has been answered with the message of the invalid
\* switches; the binding is still pending.
C17_Witness ==
    /\ last.op = "func" /\ ~may_validate(last.caller)
    /\ last.msg = "Mutually exclusive or invalid switches were used"
    /\ HasTarget(last.caller)
    /\ ~Target(last.caller).valid
    /\ Target(last.caller).author # last.caller

\* C18: whatever the users did before, a save that succeeds replaces code,
\* author and valid flag of the binding the event of the saver was opened on,
\* and leaves the other bindings and the events of all users as they were;
\* the event an add opens addresses a binding that the event of no other user
\* addresses.
C18_SaveTouchesOwnTarget ==
    [][/\ (last'.op = "save" /\ last'.ret = "True") =>
            LET u == last'.caller
                number == db_event[u][1].number
            IN  /\ db_event' = db_event
                /\ \E buf \in Buffers :
                    store' = [store EXCEPT !["door"]["open"][number + 1] =
                                [code |-> buf, author |-> u,
                                 valid |-> trusted(u), updated_on |-> TRUE]]
       /\ (last'.op = "add" /\ EditorOpened(last')) =>
            \A v \in Users \ {last'.caller} :
                db_event'[v] # <<>> =>
                    db_event'[v][1].number # db_event'[last'.caller][1].number]_vars

\* C18 witness: two users each added a binding and hold the events of these
\* two bindings; both have saved code, the second one last, and each binding
\* holds the save of its own user.
C18_Witness ==
    /\ last.op = "save" /\ last.ret = "True" /\ last.caller = "validator"
    /\ db_event["helper"] = Opened("", 0)
    /\ db_event["validator"] = Opened("", 1)
    /\ Len(OpenEvents(store)) = 2
    /\ OpenEvents(store)[1] = [code |-> "pass", author |-> "helper",
                               valid |-> TRUE, updated_on |-> TRUE]
    /\ OpenEvents(store)[2] = [code |-> "pass", author |-> "validator",
                               valid |-> FALSE, updated_on |-> TRUE]

====
